---- MODULE Spec2Model ----
(***************************************************************************)
(* Exemplar memory buffer (utils.py, MemoryDataset) and the incremental    *)
(* training loop that drives it (trainer.py, Trainer.train).               *)
(*                                                                         *)
(* Rows of the buffer are modelled by four parallel columns x, y, t, z of  *)
(* integers: x is the identity of the stored image (0 = the zero image),   *)
(* y its global label, t its task id, z its cached logit.  Python indices  *)
(* are 0-based; column c's row i is c[i+1].                                *)
(*                                                                         *)
(* Spec follows fresh (non-resumed) runs of Trainer.train, once with the   *)
(* MemoryDataset of utils.py, whose constructor, lookup and update carry   *)
(* the z column the Trainer's calls leave out, and once with a buffer of   *)
(* the columns x, y, t only, on which the calls bind.  SpecMem follows the *)
(* buffer of utils.py on its own.  SpecResume follows the same runs and a  *)
(* restart of the Trainer from the checkpoint of the last finished task.   *)
(* SpecLr follows the optimizer and its scheduler through the epochs of    *)
(* the tasks, SpecGrad the gradient estimate at the start of a task, and   *)
(* SpecData the data loader and the label shift of a batch; each of these  *)
(* three leaves out the part of Trainer.train it does not read.            *)
(***************************************************************************)
EXTENDS Integers, Sequences, FiniteSets, TLC

VARIABLES
  cfg,        \* the run's configuration (Trainer.__init__)
  schema,     \* which MemoryDataset the Trainer's import resolves to
  pc,         \* position of Trainer.train
  task,       \* loop variable of Trainer.train
  memory,     \* self.memory: <<>> is None, <<m>> a MemoryDataset
  K,          \* Trainer.train's local K
  rt,         \* self.rt, a fraction <<numerator, denominator>>
  n_class,    \* class count of self.model
  prev_n_class, \* class count of self.prev_model (0 = None)
  cur_classes,  \* self.cur_classes
  batch,      \* what the last training batch did
  data,       \* what the last end-of-task memory update read
  err,        \* the exception that ended the run, "none" if none
  op,         \* the last buffer operation applied (buffer specification)
  epoch,      \* loop variable of the epoch loop: epochs of the task completed
  optimizer,  \* self.optimizer
  lr_scheduler, \* self.lr_scheduler: <<>> when the attribute is not set
  lr_used,    \* the rate of the last optimizer.step(): <<>> before the first
  est,        \* the gradient estimate at the start of a task
  saved,      \* the checkpoint files of the last finished task: <<>> if none
  resume,     \* config.resume and config.resume_task of the running process
  uninterrupted, \* the trainer state the interrupted run had at its stop
  loader,     \* the data loader of the task: <<>> before it is made
  sample      \* the last sample of a batch and its shifted label

optVars == <<epoch, optimizer, lr_scheduler, lr_used>>

resumeVars == <<saved, resume, uninterrupted>>

dataVars == <<loader, sample>>

vars == <<cfg, schema, pc, task, memory, K, rt, n_class, prev_n_class,
          cur_classes, batch, data, err, op, optVars, est, resumeVars,
          dataVars>>

(***************************************************************************)
(* Bounds of the model.                                                    *)
(***************************************************************************)
MaxMem == 4        \* memory_size of the small configurations: 1..MaxMem
MaxBatch == 3      \* batch_size of the small configurations: 1..MaxBatch
MaxTask == 3       \* tasks a run of the model executes at most
MaxPerm == 4       \* sequences up to this length are permuted in every way
MaxSize == 4       \* rows of the buffers of the buffer specification
MaxK == 4          \* quotas and new quotas of the buffer specification
MaxLabel == 3      \* labels of the buffer specification

(***************************************************************************)
(* Small helpers.                                                          *)
(***************************************************************************)
Min(a, b) == IF a <= b THEN a ELSE b

Zeros(n) == [i \in 1..n |-> 0]

Full(n, v) == [i \in 1..n |-> v]

\* the sum of a sequence of numbers, by halves
RECURSIVE Sum(_)
Sum(s) ==
  IF Len(s) = 0 THEN 0
  ELSE IF Len(s) = 1 THEN s[1]
  ELSE Sum(SubSeq(s, 1, Len(s) \div 2))
       + Sum(SubSeq(s, Len(s) \div 2 + 1, Len(s)))

RECURSIVE Pow(_, _)
Pow(b, n) == IF n = 0 THEN 1 ELSE b * Pow(b, n - 1)

Reverse(s) == [i \in 1..Len(s) |-> s[Len(s) + 1 - i]]

Range(s) == {s[i] : i \in 1..Len(s)}

\* every ordering of the elements of s (s has no repeated element)
Orderings(s) ==
  {p \in [1..Len(s) -> Range(s)] : \A i, j \in 1..Len(s) : i # j => p[i] # p[j]}

\* the outcomes of a shuffle the model follows: all of them for a short
\* sequence, the identity and the reversal for a long one
Shuffles(s) == IF Len(s) <= MaxPerm THEN Orderings(s) ELSE {s, Reverse(s)}

\* Python s[a:b] for 0 <= a <= b: the slice is clipped to the sequence
Slice(s, a, b) ==
  LET lo == Min(a, Len(s))
      hi == Min(b, Len(s))
  IN  IF hi <= lo THEN <<>> ELSE [i \in 1..(hi - lo) |-> s[lo + i]]

\* arange(a, b)
Arange(a, b) == IF b <= a THEN <<>> ELSE [i \in 1..(b - a) |-> a + i - 1]

(***************************************************************************)
(* Tensor slice assignment  col[a:b] = p.  It succeeds when p has as many  *)
(* rows as the (clipped) slice, or one row, which is broadcast.            *)
(***************************************************************************)
CanAssign(col, a, b, p) == Len(p) = Len(Slice(col, a, b)) \/ Len(p) = 1

Assign(col, a, b, p) ==
  [r \in 1..Len(col) |->
     IF a < r /\ r <= Min(b, Len(col))
     THEN (IF Len(p) = 1 THEN p[1] ELSE p[r - a])
     ELSE col[r]]

(***************************************************************************)
(* MemoryDataset (utils.py).                                               *)
(***************************************************************************)
\* The buffer class of utils.py keeps the columns x, y, t and z
SchemaOfSource == "xytz"

\* The buffer the Trainer's call sites are written for keeps no cached logit:
\* the columns x, y and t only (the z column of the model then stays zero)
SchemaWithoutLogit == "xyt"

MemoryDataset(x, y, t, z, k) ==
  [x |-> x, y |-> y, t |-> t, z |-> z, k |-> k, size |-> Len(x)]

\* __getitem__(idx) for a sequence idx of row indices
getitem(m, idx) ==
  [x |-> [j \in 1..Len(idx) |-> m.x[idx[j] + 1]],
   y |-> [j \in 1..Len(idx) |-> m.y[idx[j] + 1]],
   t |-> [j \in 1..Len(idx) |-> m.t[idx[j] + 1]],
   z |-> [j \in 1..Len(idx) |-> m.z[idx[j] + 1]]]

\* the loop of remove_examplars from block i on; acc holds the new arrays
RECURSIVE remove_loop(_, _, _, _)
remove_loop(m, new_k, i, acc) ==
  LET start == i * m.k
      a == new_k * i
      b == new_k * (i + 1)
  IN  IF start >= m.size THEN acc
      ELSE IF start + new_k > m.size THEN acc
      ELSE IF ~CanAssign(acc.x, a, b, Slice(m.x, start, start + new_k))
      THEN [acc EXCEPT !.ok = FALSE]
      ELSE remove_loop(m, new_k, i + 1,
             [ok |-> TRUE,
              x |-> Assign(acc.x, a, b, Slice(m.x, start, start + new_k)),
              y |-> Assign(acc.y, a, b, Slice(m.y, start, start + new_k)),
              t |-> Assign(acc.t, a, b, Slice(m.t, start, start + new_k)),
              z |-> Assign(acc.z, a, b, Slice(m.z, start, start + new_k))])

remove_examplars_keep_k(m, new_k) ==
  IF m.k = 0 THEN [ok |-> FALSE, m |-> m]
  ELSE LET r == remove_loop(m, new_k, 0,
                  [ok |-> TRUE, x |-> Zeros(m.size), y |-> Zeros(m.size),
                   t |-> Zeros(m.size), z |-> Zeros(m.size)])
       IN  [ok |-> r.ok,
            m |-> IF r.ok
                  THEN [x |-> r.x, y |-> r.y, t |-> r.t, z |-> r.z,
                        k |-> m.k, size |-> m.size]
                  ELSE m]

\* remove_examplars(new_k); range(0, size, 0) raises ValueError
remove_examplars(m, new_k) ==
  IF m.k = 0 THEN [ok |-> FALSE, m |-> m]
  ELSE LET r == remove_loop(m, new_k, 0,
                  [ok |-> TRUE, x |-> Zeros(m.size), y |-> Zeros(m.size),
                   t |-> Zeros(m.size), z |-> Zeros(m.size)])
       IN  [ok |-> r.ok,
            m |-> IF r.ok
                  THEN [x |-> r.x, y |-> r.y, t |-> r.t, z |-> r.z,
                        k |-> new_k, size |-> m.size]
                  ELSE m]

update_memory_next_block(m, label, new_x, new_y, new_t, new_z) ==
  LET a == label * m.k + 1
      b == (label + 1) * m.k + 1
  IN  IF ~CanAssign(m.x, a, b, new_x) THEN [ok |-> FALSE, m |-> m]
      ELSE [ok |-> TRUE,
            m |-> [m EXCEPT !.x = Assign(m.x, a, b, new_x),
                            !.y = Assign(m.y, a, b, new_y),
                            !.t = Assign(m.t, a, b, new_t),
                            !.z = Assign(m.z, a, b, new_z)]]

\* update_memory(label, new_x, new_y, new_t, new_z); the four statements run
\* in order, so a payload of the wrong length fails at the first one
update_memory(m, label, new_x, new_y, new_t, new_z) ==
  LET a == label * m.k
      b == (label + 1) * m.k
  IN  IF ~(CanAssign(m.x, a, b, new_x) /\ CanAssign(m.y, a, b, new_y)
           /\ CanAssign(m.t, a, b, new_t) /\ CanAssign(m.z, a, b, new_z))
      THEN [ok |-> FALSE, m |-> m]
      ELSE [ok |-> TRUE,
            m |-> [m EXCEPT !.x = Assign(m.x, a, b, new_x),
                            !.y = Assign(m.y, a, b, new_y),
                            !.t = Assign(m.t, a, b, new_t),
                            !.z = Assign(m.z, a, b, new_z)]]

(***************************************************************************)
(* Replay sampling of one training batch (trainer.py, Trainer.train).      *)
(***************************************************************************)
chunk_size_next_task(memory_size, increment, task_) ==
  (memory_size \div (increment * (task_ + 1))) * increment

\* chunk_size = (self.memory_size // (self.increment * task)) * self.increment
chunk_size(memory_size, increment, task_) ==
  (memory_size \div (increment * task_)) * increment

\* np.random.permutation(np.arange(chunk_size*t, chunk_size*(t+1)))
replay_permutations(chunk, t) == Shuffles(Arange(chunk * t, chunk * (t + 1)))

\* if chunk_size < self.batch_size: col = torch.concat([col, col])[:batch_size]
duplicate(col, chunk, batch_size) ==
  IF chunk < batch_size THEN Slice(col \o col, 0, batch_size) ELSE col

\* assert(mt.sum()==t*mt.size(0))
replay_assert(mt, t) == Sum(mt) = t * Len(mt)

NoBatch ==
  [trained |-> FALSE, replay |-> FALSE, t |-> 0, chunk |-> 0, idx |-> <<>>,
   mx |-> <<>>, my |-> <<>>, mt |-> <<>>, asserted |-> TRUE,
   rt_used |-> <<0, 1>>]

\* the replay part of one batch on buffer m: the rows fetched for sub-task t
\* through the permutation perm, duplicated, and the assertion's verdict
replay_fetch(m, memory_size, increment, batch_size, task_, t, perm) ==
  LET chunk == chunk_size(memory_size, increment, task_)
      memory_idx == Slice(perm, 0, batch_size)
      got == getitem(m, memory_idx)
      mx == duplicate(got.x, chunk, batch_size)
      my == duplicate(got.y, chunk, batch_size)
      mt == duplicate(got.t, chunk, batch_size)
  IN  [trained |-> TRUE, replay |-> TRUE, t |-> t, chunk |-> chunk,
       idx |-> memory_idx, mx |-> mx, my |-> my, mt |-> mt,
       asserted |-> replay_assert(mt, t), rt_used |-> <<0, 1>>]

(***************************************************************************)
(* The buffer on its own: any buffer a caller can construct, and one       *)
(* operation applied to it.                                                *)
(***************************************************************************)
\* the rows of the buffers followed: <<x, y, t, z>>
RowVals == {<<0, 0, 0, 0>>, <<1, 1, 1, 7>>, <<2, 2, 2, 8>>}

\* the rows of the payloads followed
PayVals == {<<5, 1, 1, 3>>, <<6, 2, 0, 4>>}

Col(rows, c) == [i \in 1..Len(rows) |-> rows[i][c]]

BufferOf(rows, k) ==
  MemoryDataset(Col(rows, 1), Col(rows, 2), Col(rows, 3), Col(rows, 4), k)

\* a buffer of quota 10 with three populated 10-row blocks and two free rows
ExampleBuffer ==
  MemoryDataset([i \in 1..32 |-> IF i <= 30 THEN i ELSE 0],
                [i \in 1..32 |-> IF i <= 30 THEN (i - 1) \div 10 ELSE 0],
                [i \in 1..32 |-> 0],
                [i \in 1..32 |-> IF i <= 30 THEN 100 + i ELSE 0],
                10)

SmallBuffers ==
  {BufferOf(rows, k) :
     rows \in UNION {[1..n -> RowVals] : n \in 0..MaxSize}, k \in 0..MaxK}

Payloads == UNION {[1..n -> PayVals] : n \in 0..MaxK}

NoOp ==
  [name |-> "none", pre |-> MemoryDataset(<<>>, <<>>, <<>>, <<>>, 0),
   new_k |-> 0, label |-> 0, payload |-> <<>>, ok |-> TRUE]

NoData == [xs |-> <<>>, labels |-> <<>>, conf |-> <<>>]

NoCfg ==
  [dataset |-> "none", split |-> 1, memory_size |-> 0, batch_size |-> 1,
   ILtype |-> "task", rt |-> <<1, 1>>]

\* config.resume = False
NoResume == [resume |-> FALSE, resume_task |-> 0]

\* one tensor of the estimate: gs the gradients of the batches' losses so
\* far, grad the tensor's .grad, avg the running prev_avg_*_grad (<<>> is
\* None, <<n, d>> the value n/d)
NoGrad == [gs |-> <<>>, grad |-> 0, avg |-> <<>>]

NoEst == [alias |-> FALSE, N |-> 0, length |-> 0, K |-> NoGrad, bias |-> NoGrad]

\* the parts of the Trainer a specification does not follow
OptIdle == epoch = 0 /\ optimizer = <<>> /\ lr_scheduler = <<>> /\ lr_used = <<>>

ResumeIdle == saved = <<>> /\ resume = NoResume /\ uninterrupted = <<>>

DataIdle == loader = <<>> /\ sample = <<>>

InitMem ==
  /\ memory \in {<<m>> : m \in SmallBuffers \cup {ExampleBuffer}}
  /\ op = NoOp
  /\ batch = NoBatch
  /\ cfg = NoCfg
  /\ schema = SchemaOfSource
  /\ pc = "buffer"
  /\ task = 0
  /\ K = 0
  /\ rt = <<1, 1>>
  /\ n_class = 0
  /\ prev_n_class = 0
  /\ cur_classes = 0
  /\ data = NoData
  /\ err = "none"
  /\ OptIdle
  /\ est = NoEst
  /\ ResumeIdle
  /\ DataIdle

TrainerUnchanged ==
  UNCHANGED <<cfg, schema, pc, task, K, rt, n_class, prev_n_class,
              cur_classes, data, optVars, est, resumeVars, dataVars>>

\* memory.remove_examplars(new_k)
MemRemove ==
  /\ op.name = "none"
  /\ \E new_k \in 0..MaxK :
       LET r == remove_examplars(memory[1], new_k)
       IN  /\ memory' = <<r.m>>
           /\ op' = [name |-> "remove", pre |-> memory[1], new_k |-> new_k,
                     label |-> 0, payload |-> <<>>, ok |-> r.ok]
           /\ err' = IF r.ok THEN "none" ELSE "ValueError"
  /\ UNCHANGED batch
  /\ TrainerUnchanged

\* memory.update_memory(label, new_x, new_y, new_t, new_z)
MemUpdate ==
  /\ op.name = "none"
  /\ \E label \in 0..MaxLabel, p \in Payloads :
       LET r == update_memory(memory[1], label, Col(p, 1), Col(p, 2),
                              Col(p, 3), Col(p, 4))
       IN  /\ memory' = <<r.m>>
           /\ op' = [name |-> "update", pre |-> memory[1], new_k |-> 0,
                     label |-> label, payload |-> p, ok |-> r.ok]
           /\ err' = IF r.ok THEN "none" ELSE "RuntimeError"
  /\ UNCHANGED batch
  /\ TrainerUnchanged

\* the replay fetch of a training batch on the buffer, whatever it holds
MemReplay ==
  /\ op.name = "none"
  /\ \E increment \in 1..2, batch_size \in 1..MaxBatch, task_ \in 1..MaxTask :
       \E t \in 0..(task_ - 1) :
         \E perm \in replay_permutations(
                       chunk_size(memory[1].size, increment, task_), t) :
           LET b == replay_fetch(memory[1], memory[1].size, increment,
                                 batch_size, task_, t, perm)
           IN  /\ batch' = b
               /\ err' = IF b.asserted THEN "none" ELSE "AssertionError"
  /\ op' = [NoOp EXCEPT !.name = "replay", !.pre = memory[1]]
  /\ UNCHANGED memory
  /\ TrainerUnchanged

NextMem == MemRemove \/ MemUpdate \/ MemReplay

SpecMem == InitMem /\ [][NextMem]_vars

(***************************************************************************)
(* The Trainer (trainer.py).                                               *)
(***************************************************************************)
PerClass == 4      \* training samples of every class of the data set

\* self.n_classes
n_classes(dataset) == IF dataset = "tinyimagenet200" THEN 200 ELSE 100

\* self.increment = int(self.n_classes//self.split)
increment(c) == n_classes(c.dataset) \div c.split

quota_of_first_task(memory_size, inc, task_) == memory_size \div inc

\* K = self.memory_size // (self.increment * (task+1))
quota(memory_size, inc, task_) == memory_size \div (inc * (task_ + 1))

\* The call sites of the Trainer: arguments passed to MemoryDataset(...),
\* to update_memory(...), and targets of  mx,my,mt = self.memory[...]
InitArgs == 4
UpdateArgs == 4
UnpackTargets == 3

\* What MemoryDataset takes and gives: with the z column five parameters
\* after self and four fields; without it one fewer of each
init_params(sch) == IF sch = SchemaOfSource THEN 5 ELSE 4
update_params(sch) == IF sch = SchemaOfSource THEN 5 ELSE 4
getitem_fields(sch) == IF sch = SchemaOfSource THEN 4 ELSE 3

\* The training samples of a task in data-set order.  Sample ids are
\* positive; class c owns ids c*PerClass+1 .. (c+1)*PerClass.
TaskSamples(inc, task_) ==
  [i \in 1..(inc * PerClass) |-> inc * task_ * PerClass + i]

label_of(id) == (id - 1) \div PerClass

\* Confidence scores the model may assign (distinct per sample)
Fams == {"asc", "desc", "zigzag"}

Score(fam, id) ==
  CASE fam = "asc" -> id
    [] fam = "desc" -> 0 - id
    [] OTHER -> IF id % 2 = 0 THEN id ELSE 0 - id

\* conf_score.argsort(): the positions (0-based) by rising score; the place
\* of a position is the number of positions of lower score
argsort(conf) ==
  LET below == [p \in 1..Len(conf) |->
                  Cardinality({q \in 1..Len(conf) : conf[q] < conf[p]})]
               \o <<>>
  IN  [r \in 1..Len(conf) |->
         (CHOOSE p \in 1..Len(conf) : below[p] = r - 1) - 1]

\* arr[mask] for a boolean mask: the entries of arr at the mask's true places
MaskSelect(arr, mask) ==
  LET places == SelectSeq([i \in 1..Len(arr) |-> i], LAMBDA i : mask[i])
  IN  [j \in 1..Len(places) |-> arr[places[j]]]

\* conf_score_sorted[labels==label][:K]
select(conf_score_sorted, labels, label, k) ==
  Slice(MaskSelect(conf_score_sorted,
                   [i \in 1..Len(labels) |-> labels[i] = label]), 0, k)

Take(col, positions) == [j \in 1..Len(positions) |-> col[positions[j] + 1]]

\* for label in range(lo, hi): ... self.memory.update_memory(label, ...)
RECURSIVE update_loop(_, _, _, _, _, _, _)
update_loop(m, label, hi, d, sorted, k, task_) ==
  IF label >= hi THEN [ok |-> TRUE, m |-> m]
  ELSE LET sel == select(sorted, d.labels, label, k)
           r == update_memory(m, label, Take(d.xs, sel), Take(d.labels, sel),
                              Full(k, task_), Zeros(Len(sel)))
       IN  IF r.ok THEN update_loop(r.m, label + 1, hi, d, sorted, k, task_)
           ELSE r

Configs ==
  [dataset : {"cifar100"}, split : {50, 100}, memory_size : 1..MaxMem,
   batch_size : 1..MaxBatch, ILtype : {"task", "class"}, rt : {<<1, 1>>}]
  \cup
  [dataset : {"cifar100"}, split : {2}, memory_size : {200},
   batch_size : {128}, ILtype : {"task", "class"}, rt : {<<1, 2>>}]

Init ==
  /\ cfg \in Configs
  /\ schema \in {SchemaOfSource, SchemaWithoutLogit}
  /\ pc = "task_start"
  /\ task = 0
  /\ memory = <<>>
  /\ K = 0
  /\ rt = cfg.rt
  /\ n_class = increment(cfg)
  /\ prev_n_class = 0
  /\ cur_classes = increment(cfg)
  /\ batch = NoBatch
  /\ data = NoData
  /\ err = "none"
  /\ op = NoOp
  /\ OptIdle
  /\ est = NoEst
  /\ ResumeIdle
  /\ DataIdle

Raise(e) == pc' = "error" /\ err' = e

\* start of the loop body: the quota, and the buffer when there is none
BeginTask ==
  /\ pc = "task_start"
  /\ task < cfg.split
  /\ task < MaxTask
  /\ K' = quota(cfg.memory_size, increment(cfg), task)
  /\ IF memory = <<>>
     THEN IF resume.resume
          THEN /\ memory' = <<saved[1].memory>>
               /\ pc' = "train"
               /\ err' = err
          ELSE IF InitArgs = init_params(schema)
          THEN /\ memory' = <<MemoryDataset(Zeros(cfg.memory_size),
                                            Zeros(cfg.memory_size),
                                            Zeros(cfg.memory_size),
                                            Zeros(cfg.memory_size), K')>>
               /\ pc' = "train"
               /\ err' = err
          ELSE /\ Raise("TypeError: __init__() missing argument")
               /\ memory' = memory
     ELSE /\ pc' = "train"
          /\ UNCHANGED <<memory, err>>
  /\ batch' = NoBatch
  /\ UNCHANGED <<cfg, schema, task, rt, n_class, prev_n_class, cur_classes,
                 data, op, optVars, est, resumeVars, dataVars>>

\* one batch of one epoch
TrainBatch ==
  /\ pc = "train"
  /\ IF task = 0
     THEN /\ batch' = [NoBatch EXCEPT !.trained = TRUE]
          /\ UNCHANGED <<pc, err>>
     ELSE \E t \in 0..(task - 1) :
            \E perm \in replay_permutations(
                          chunk_size(cfg.memory_size, increment(cfg), task), t) :
              IF UnpackTargets # getitem_fields(schema)
              THEN /\ Raise("ValueError: too many values to unpack")
                   /\ batch' = batch
              ELSE LET b == replay_fetch(memory[1], cfg.memory_size,
                                         increment(cfg), cfg.batch_size,
                                         task, t, perm)
                   IN  IF b.asserted
                       THEN /\ batch' = [b EXCEPT !.rt_used = rt]
                            /\ UNCHANGED <<pc, err>>
                       ELSE /\ batch' = b
                            /\ Raise("AssertionError")
  /\ UNCHANGED <<cfg, schema, task, memory, K, rt, n_class, prev_n_class,
                 cur_classes, data, op, optVars, est, resumeVars, dataVars>>

\* the epochs are over
EndTraining ==
  /\ pc = "train"
  /\ pc' = "update"
  /\ batch' = NoBatch
  /\ UNCHANGED <<cfg, schema, task, memory, K, rt, n_class, prev_n_class,
                 cur_classes, data, err, op, optVars, est, resumeVars,
                 dataVars>>

\* end-of-task memory update
UpdateMemory ==
  /\ pc = "update"
  /\ \E xs \in Shuffles(TaskSamples(increment(cfg), task)), fam \in Fams :
       LET d == [xs |-> xs,
                 labels |-> [i \in 1..Len(xs) |-> label_of(xs[i])],
                 conf |-> [i \in 1..Len(xs) |-> Score(fam, xs[i])]]
           conf_score_sorted == Reverse(argsort(d.conf))
           r1 == IF task > 0 THEN remove_examplars(memory[1], K)
                 ELSE [ok |-> TRUE, m |-> memory[1]]
           r2 == update_loop(r1.m, increment(cfg) * task,
                             increment(cfg) * (task + 1), d,
                             conf_score_sorted, K, task)
       IN  /\ data' = d
           /\ IF ~r1.ok
              THEN Raise("ValueError: range() arg 3 must not be zero")
                   /\ memory' = memory
              ELSE IF UpdateArgs # update_params(schema)
              THEN Raise("TypeError: update_memory() missing argument")
                   /\ memory' = <<r1.m>>
              ELSE IF ~r2.ok
              THEN Raise("RuntimeError") /\ memory' = <<r1.m>>
              ELSE pc' = "boundary" /\ err' = err /\ memory' = <<r2.m>>
  /\ UNCHANGED <<cfg, schema, task, K, rt, n_class, prev_n_class,
                 cur_classes, batch, op, optVars, est, resumeVars, dataVars>>

\* LVT.add_classes(n): the classifier grows by inc classes
add_classes(n, inc) == n + inc

grow_class_il_only(n, iltype, inc) ==
  IF iltype = "class" THEN add_classes(n, inc) ELSE n

\* if self.ILtype == 'task': add_classes;  if self.ILtype == 'class': add_classes
grow(n, iltype, inc) ==
  IF iltype = "task" THEN add_classes(n, inc)
  ELSE IF iltype = "class" THEN add_classes(n, inc)
  ELSE n

decay_twice(r) == <<r[1] * 81, r[2] * 100>>

\* self.rt *= 0.9
decay(r) == <<r[1] * 9, r[2] * 10>>

\* self.save(self.model, self.memory, task): the files of the finished task
save(model, mem, task_) == <<[model |-> model, memory |-> mem, task |-> task_]>>

\* rt decay, class growth, snapshot, checkpoint, next task.  The snapshot is
\* written copy.deepcopy(self.model) while trainer.py imports only the name
\* deepcopy; the name copy is taken to arrive through  from models.lvt import *.
TaskBoundary ==
  /\ pc = "boundary"
  /\ rt' = decay(rt)
  /\ n_class' = grow(n_class, cfg.ILtype, increment(cfg))
  /\ cur_classes' = IF cfg.ILtype = "class"
                    THEN cur_classes + increment(cfg) ELSE cur_classes
  /\ prev_n_class' = n_class'
  /\ task' = task + 1
  /\ pc' = IF task + 1 < cfg.split THEN "task_start" ELSE "done"
  /\ data' = NoData
  /\ saved' = save(n_class', memory[1], task)
  /\ UNCHANGED <<cfg, schema, memory, K, batch, err, op, optVars, est,
                 resume, uninterrupted, dataVars>>

Next == BeginTask \/ TrainBatch \/ EndTraining \/ UpdateMemory \/ TaskBoundary

Spec == Init /\ [][Next]_vars

(***************************************************************************)
(* A restart from the checkpoint of the last finished task (trainer.py,    *)
(* Trainer.__init__ with config.resume and the head of Trainer.train).     *)
(***************************************************************************)
\* The run is stopped where task r = saved task + 1 is about to begin, and a
\* new process is started with resume = True, resume_task = r: the model is
\* loaded from the checkpoint, copied to prev_model and grown by increment;
\* rt, cur_classes and memory are set as in every construction; train()
\* starts its loop at resume_task.
Resume ==
  /\ pc = "task_start"
  /\ ~resume.resume
  /\ saved # <<>>
  /\ task = saved[1].task + 1
  /\ task < cfg.split
  /\ task < MaxTask
  /\ uninterrupted' = <<[n_class |-> n_class, prev_n_class |-> prev_n_class,
                         rt |-> rt, memory |-> memory]>>
  /\ resume' = [resume |-> TRUE, resume_task |-> task]
  /\ prev_n_class' = saved[1].model
  /\ n_class' = add_classes(saved[1].model, increment(cfg))
  /\ cur_classes' = increment(cfg)
  /\ rt' = cfg.rt
  /\ memory' = <<>>
  /\ K' = 0
  /\ batch' = NoBatch
  /\ data' = NoData
  /\ err' = "none"
  /\ UNCHANGED <<cfg, schema, pc, task, op, saved, optVars, est, dataVars>>

\* the runs of the small configurations
InitResume == Init /\ cfg.memory_size <= MaxMem

NextResume == Next \/ Resume

SpecResume == InitResume /\ [][NextResume]_vars

\* the parts of a run of Trainer.train a specification does not follow
TrainerIdle ==
  /\ schema = SchemaOfSource
  /\ memory = <<>>
  /\ K = 0
  /\ rt = <<1, 1>>
  /\ n_class = 0
  /\ prev_n_class = 0
  /\ cur_classes = 0
  /\ batch = NoBatch
  /\ data = NoData
  /\ err = "none"
  /\ op = NoOp

trainerVars ==
  <<schema, memory, K, rt, n_class, prev_n_class, cur_classes, batch, data,
    err, op>>

(***************************************************************************)
(* The optimizer and its scheduler (trainer.py, Trainer.__init__ and the   *)
(* epoch loop of Trainer.train).  A rate <<m, e>> is m * 10^-e, so that a  *)
(* multiplication by 0.1 adds one to e.                                    *)
(***************************************************************************)
MaxEpochs == 12    \* config.epoch of the runs followed: 1..MaxEpochs

\* optim.SGD(self.model.parameters(), lr = self.lr)
SGD(lr) == <<[lr |-> lr]>>

\* torch.optim.lr_scheduler.StepLR(self.optimizer, self.train_epoch/10, 0.1):
\* step_size is the quotient train_epoch/10 (numerator, denominator), gamma
\* the rate 0.1; the construction leaves the optimizer's rate as it is
StepLR(train_epoch) ==
  <<[step_size |-> <<train_epoch, 10>>, gamma |-> <<1, 1>>, last_epoch |-> 0]>>

LrConfigs ==
  [epoch : 1..MaxEpochs, lr : {<<1, 1>>, <<5, 2>>}, scheduler : BOOLEAN,
   split : 1..MaxTask]

\* Trainer.__init__: the optimizer, and the scheduler when the flag is set
InitLr ==
  /\ cfg \in LrConfigs
  /\ optimizer = SGD(cfg.lr)
  /\ lr_scheduler = IF cfg.scheduler THEN StepLR(cfg.epoch) ELSE <<>>
  /\ epoch = 0
  /\ lr_used = <<>>
  /\ pc = "epochs"
  /\ task = 0
  /\ TrainerIdle
  /\ est = NoEst
  /\ ResumeIdle
  /\ DataIdle

\* one batch of an epoch: zero_grad, backward, clip, self.optimizer.step()
OptimizerStep ==
  /\ pc = "epochs"
  /\ epoch < cfg.epoch
  /\ lr_used' = <<[lr |-> optimizer[1].lr, task |-> task, epoch |-> epoch]>>
  /\ UNCHANGED <<cfg, pc, task, epoch, optimizer, lr_scheduler, trainerVars,
                 est, resumeVars, dataVars>>

\* the end of the body of the epoch loop: after the batches only the logging
EndEpoch ==
  /\ pc = "epochs"
  /\ epoch < cfg.epoch
  /\ epoch' = epoch + 1
  /\ pc' = IF epoch + 1 < cfg.epoch THEN "epochs" ELSE "reset"
  /\ UNCHANGED <<cfg, task, optimizer, lr_scheduler, lr_used, trainerVars,
                 est, resumeVars, dataVars>>

\* Reset optimizer, at the end of the body of the task loop
ResetOptimizer ==
  /\ pc = "reset"
  /\ optimizer' = SGD(cfg.lr)
  /\ lr_scheduler' = IF cfg.scheduler THEN StepLR(cfg.epoch) ELSE lr_scheduler
  /\ task' = task + 1
  /\ epoch' = 0
  /\ pc' = IF task + 1 < cfg.split THEN "epochs" ELSE "done"
  /\ UNCHANGED <<cfg, lr_used, trainerVars, est, resumeVars, dataVars>>

NextLr == OptimizerStep \/ EndEpoch \/ ResetOptimizer

SpecLr == InitLr /\ [][NextLr]_vars

(***************************************************************************)
(* The gradient estimate at the start of a task > 0 (trainer.py,           *)
(* Trainer.train).  A gradient is one number per tensor.                   *)
(***************************************************************************)
MaxBatches == 3    \* batches of the task's train loader: 0..MaxBatches

\* the gradients the loss of one batch may have
GradVals == {0 - 1, 1, 2}

\* cross_entropy(inj_logit, y).backward(): the gradient of the batch's loss is
\* added to the tensor's .grad
backward(grad, g) == grad + g

\* get_K_grad(), get_bias_grad(): the currently accumulated gradient
get_grad(grad) == grad

\* the body of the loop for one tensor.  When the accessor hands out the
\* .grad tensor itself (alias), prev_avg is that tensor from the first batch
\* on: backward adds to it and += adds it to itself.
accumulate(t, g, alias) ==
  LET after == backward(t.grad, g)
  IN  IF t.avg = <<>>
      THEN [gs |-> Append(t.gs, g), grad |-> after,
            avg |-> <<get_grad(after), 1>>]
      ELSE IF alias
      THEN [gs |-> Append(t.gs, g), grad |-> after + get_grad(after),
            avg |-> <<after + get_grad(after), 1>>]
      ELSE [gs |-> Append(t.gs, g), grad |-> after,
            avg |-> <<t.avg[1] + get_grad(after), 1>>]

\* prev_avg /= length (nothing reads .grad after the loop)
divide(t, length) == [t EXCEPT !.avg = <<t.avg[1], length>>]

\* a task > 0 starts: prev_avg_K_grad = None, prev_avg_bias_grad = None,
\* length = 0; the previous model is a fresh copy, its gradients are zero
InitGrad ==
  /\ est \in {[NoEst EXCEPT !.alias = a, !.N = n] :
                a \in BOOLEAN, n \in 0..MaxBatches}
  /\ cfg = NoCfg
  /\ pc = "estimate"
  /\ task = 1
  /\ TrainerIdle
  /\ OptIdle
  /\ ResumeIdle
  /\ DataIdle

\* for x, y, _ in data_loader: one batch
EstimateBatch ==
  /\ pc = "estimate"
  /\ est.length < est.N
  /\ \E gK \in GradVals, gB \in GradVals :
       est' = [est EXCEPT !.length = est.length + 1,
                          !.K = accumulate(est.K, gK, est.alias),
                          !.bias = accumulate(est.bias, gB, est.alias)]
  /\ UNCHANGED <<cfg, pc, task, trainerVars, optVars, resumeVars, dataVars>>

\* after the loop: the two divisions; None /= 0 raises TypeError
EstimateEnd ==
  /\ pc = "estimate"
  /\ est.length = est.N
  /\ IF est.K.avg = <<>>
     THEN /\ Raise("TypeError: unsupported operand type(s) for /=")
          /\ est' = est
     ELSE /\ est' = [est EXCEPT !.K = divide(est.K, est.length),
                                !.bias = divide(est.bias, est.length)]
          /\ pc' = "estimated"
          /\ err' = err
  /\ UNCHANGED <<cfg, task, schema, memory, K, rt, n_class, prev_n_class,
                 cur_classes, batch, data, op, optVars, resumeVars, dataVars>>

NextGrad == EstimateBatch \/ EstimateEnd

SpecGrad == InitGrad /\ [][NextGrad]_vars

(***************************************************************************)
(* The data loader of a task and the label shift of its batches (utils.py, *)
(* IncrementalDataLoader; trainer.py, Trainer.__init__ and Trainer.train). *)
(* A dataset name is the sequence of its characters.                       *)
(***************************************************************************)
MaxSplit == 5      \* config.split of the runs followed: 1..MaxSplit

Upper ==
  <<"A", "B", "C", "D", "E", "F", "G", "H", "I", "J", "K", "L", "M", "N",
    "O", "P", "Q", "R", "S", "T", "U", "V", "W", "X", "Y", "Z">>

Lower ==
  <<"a", "b", "c", "d", "e", "f", "g", "h", "i", "j", "k", "l", "m", "n",
    "o", "p", "q", "r", "s", "t", "u", "v", "w", "x", "y", "z">>

\* str.lower() of one character
lower_char(c) ==
  IF \E i \in 1..Len(Upper) : Upper[i] = c
  THEN Lower[CHOOSE i \in 1..Len(Upper) : Upper[i] = c]
  ELSE c

\* dataset_name.lower()
lower(name) == [i \in 1..Len(name) |-> lower_char(name[i])]

\* name == '...': the string literal of the code a name is equal to
Literal(name) ==
  CASE name =
         <<"c", "i", "f", "a", "r", "1", "0", "0">> -> "cifar100"
    [] name =
         <<"t", "i", "n", "y", "i", "m", "a", "g", "e", "n", "e", "t", "2",
           "0", "0">>
         -> "tinyimagenet200"
    [] name =
         <<"i", "m", "a", "g", "e", "n", "e", "t", "1", "0", "0">> -> "imagenet100"
    [] OTHER -> "other"

\* the names followed: the three data sets in lower case, in upper case and
\* as the data-set classes are written, and a name of no data set
Names ==
  {<<"c", "i", "f", "a", "r", "1", "0", "0">>,
   <<"C", "I", "F", "A", "R", "1", "0", "0">>,
   <<"C", "i", "f", "a", "r", "1", "0", "0">>,
   <<"t", "i", "n", "y", "i", "m", "a", "g", "e", "n", "e", "t", "2", "0",
     "0">>,
   <<"T", "i", "n", "y", "I", "m", "a", "g", "e", "N", "e", "t", "2", "0",
     "0">>,
   <<"T", "I", "N", "Y", "I", "M", "A", "G", "E", "N", "E", "T", "2", "0",
     "0">>,
   <<"i", "m", "a", "g", "e", "n", "e", "t", "1", "0", "0">>,
   <<"I", "m", "a", "g", "e", "N", "e", "t", "1", "0", "0">>,
   <<"I", "M", "A", "G", "E", "N", "E", "T", "1", "0", "0">>,
   <<"m", "n", "i", "s", "t">>}

\* IncrementalDataLoader(dataset_name, data_path, train, n_split, task_id,
\* batch_size, transform): False, or a loader over the task_id-th slice of a
\* ClassIncremental scenario of increment n_classes//n_split, whose samples
\* have the labels lo .. hi-1
IncrementalDataLoader(dataset_name, n_split, task_id) ==
  LET name == Literal(lower(dataset_name))
      n == IF name = "tinyimagenet200" THEN 200 ELSE 100
      inc == n \div n_split
  IN  IF task_id >= n_split THEN [ok |-> FALSE]
      ELSE IF name \notin {"cifar100", "tinyimagenet200", "imagenet100"}
      THEN [ok |-> FALSE]
      ELSE [ok |-> TRUE, increment |-> inc, lo |-> task_id * inc,
            hi |-> (task_id + 1) * inc]

\* self.increment of a Trainer constructed with the name and the split
trainer_increment(c) ==
  increment([dataset |-> Literal(c.dataset), split |-> c.split])

\* shift_y = torch.full_like(y, task*self.increment);  y = y - shift_y
shift(y, task_, inc) == y - task_ * inc

DataConfigs == [dataset : Names, split : 1..MaxSplit]

InitData ==
  /\ cfg \in DataConfigs
  /\ pc = "load"
  /\ task = 0
  /\ loader = <<>>
  /\ sample = <<>>
  /\ TrainerIdle
  /\ OptIdle
  /\ est = NoEst
  /\ ResumeIdle

\* head of the task loop: data_loader = IncrementalDataLoader(...) and
\* x = data_loader.dataset[0][0], which raises when the loader is False
MakeLoader ==
  /\ pc = "load"
  /\ task < cfg.split
  /\ task < MaxTask
  /\ loader' = <<IncrementalDataLoader(cfg.dataset, cfg.split, task)>>
  /\ IF loader'[1].ok
     THEN pc' = "batches" /\ err' = err
     ELSE Raise("AttributeError: 'bool' object has no attribute 'dataset'")
  /\ sample' = <<>>
  /\ UNCHANGED <<cfg, task, schema, memory, K, rt, n_class, prev_n_class,
                 cur_classes, batch, data, op, optVars, est, resumeVars>>

\* one sample of a batch of the loader and its shifted label
ShiftLabel ==
  /\ pc = "batches"
  /\ \E y \in loader[1].lo..(loader[1].hi - 1) :
       sample' = <<[y |-> y, shifted |-> shift(y, task, trainer_increment(cfg))]>>
  /\ UNCHANGED <<cfg, pc, task, loader, trainerVars, optVars, est, resumeVars>>

\* the end of the body of the task loop
NextTask ==
  /\ pc = "batches"
  /\ task' = task + 1
  /\ pc' = IF task + 1 < cfg.split THEN "load" ELSE "done"
  /\ sample' = <<>>
  /\ UNCHANGED <<cfg, loader, trainerVars, optVars, est, resumeVars>>

NextData == MakeLoader \/ ShiftLabel \/ NextTask

SpecData == InitData /\ [][NextData]_vars

(***************************************************************************)
(* Properties of the buffer on its own (specification SpecMem).            *)
(***************************************************************************)
\* row r (0-based) of the compacted buffer lies in a block that was copied
RemoveCovered(pre, new_k, r) ==
  new_k > 0 /\ (r \div new_k) * pre.k + new_k <= pre.size

RemoveExpected(pre, new_k, col) ==
  [r \in 1..pre.size |->
     IF RemoveCovered(pre, new_k, r - 1)
     THEN col[((r - 1) \div new_k) * pre.k + ((r - 1) % new_k) + 1]
     ELSE 0]

RemoveDone(pre, new_k) ==
  /\ op.ok
  /\ memory[1].k = new_k
  /\ memory[1].size = pre.size
  /\ memory[1].x = RemoveExpected(pre, new_k, pre.x)
  /\ memory[1].y = RemoveExpected(pre, new_k, pre.y)
  /\ memory[1].t = RemoveExpected(pre, new_k, pre.t)
  /\ memory[1].z = RemoveExpected(pre, new_k, pre.z)

\* C5 as stated: for every quota k (k = 0 included) and every new_k <= k,
\* remove_examplars(new_k) leaves quota new_k, the same number of rows, every
\* block i with i*k + new_k <= size copied to rows [new_k*i, new_k*(i+1)) and
\* zero everywhere else.
C5_CompactionAnyQuota ==
  (op.name = "remove" /\ op.new_k <= op.pre.k) => RemoveDone(op.pre, op.new_k)

\* C5 amended: the same for every quota k >= 1 (with k = 0 the call raises).
C5_Compaction ==
  (op.name = "remove" /\ op.new_k <= op.pre.k /\ op.pre.k >= 1)
    => RemoveDone(op.pre, op.new_k)

\* the buffer with k = 10 and three populated blocks, compacted with new_k = 4,
\* holds the first four rows of each block in three 4-row blocks
C5_Witness ==
  /\ op.name = "remove"
  /\ op.pre = ExampleBuffer
  /\ op.new_k = 4
  /\ memory[1].k = 4
  /\ SubSeq(memory[1].x, 1, 12) = <<1, 2, 3, 4, 11, 12, 13, 14, 21, 22, 23, 24>>
  /\ SubSeq(memory[1].y, 1, 12) = <<0, 0, 0, 0, 1, 1, 1, 1, 2, 2, 2, 2>>

\* C6: for a label with (label+1)*k <= size and a payload of exactly k rows,
\* after update_memory a lookup over [label*k, (label+1)*k) returns the
\* payload in every column, and every other row, the quota and the size are
\* unchanged.
C6_UpdateFrame ==
  (op.name = "update" /\ (op.label + 1) * op.pre.k <= op.pre.size
     /\ Len(op.payload) = op.pre.k)
  => LET m == memory[1]
         k == op.pre.k
         got == getitem(m, Arange(op.label * k, (op.label + 1) * k))
         outside == {r \in 1..op.pre.size :
                       r <= op.label * k \/ r > (op.label + 1) * k}
     IN  /\ op.ok
         /\ got.x = Col(op.payload, 1)
         /\ got.y = Col(op.payload, 2)
         /\ got.t = Col(op.payload, 3)
         /\ got.z = Col(op.payload, 4)
         /\ Len(m.x) = op.pre.size /\ Len(m.y) = op.pre.size
         /\ Len(m.t) = op.pre.size /\ Len(m.z) = op.pre.size
         /\ \A r \in outside :
              /\ m.x[r] = op.pre.x[r] /\ m.y[r] = op.pre.y[r]
              /\ m.t[r] = op.pre.t[r] /\ m.z[r] = op.pre.z[r]
         /\ m.k = k
         /\ m.size = op.pre.size

C6_Witness ==
  /\ op.name = "update"
  /\ op.ok
  /\ op.pre.size = 4
  /\ op.pre.k = 2
  /\ op.label = 1
  /\ Len(op.payload) = 2
  /\ op.pre.x = <<1, 2, 1, 2>>
  /\ memory[1].x = <<1, 2, 5, 6>>

\* C8: whenever a row fetched for sub-task t carries a task id other than t,
\* the assertion fails and the run aborts.
C8_AssertionExact ==
  (op.name = "replay" /\ \E i \in 1..Len(batch.mt) : batch.mt[i] # batch.t)
    => (~batch.asserted /\ err = "AssertionError")

(***************************************************************************)
(* Properties of the Trainer's runs (specification Spec).                  *)
(***************************************************************************)
InRun == pc \in {"train", "update", "boundary"}

\* the images of label L that are among the k of highest confidence of L
TopK(d, L, k) ==
  {d.xs[p] : p \in {p \in 1..Len(d.xs) :
     /\ d.labels[p] = L
     /\ Cardinality({q \in 1..Len(d.xs) :
                       d.labels[q] = L /\ d.conf[q] > d.conf[p]}) < k}}

IsScenario ==
  cfg.dataset = "cifar100" /\ cfg.split = 2 /\ cfg.memory_size = 200

\* the rows of label L's block of the current quota that hold an exemplar
Stored(L) ==
  {r \in 1..Len(memory[1].x) :
     /\ L * memory[1].k < r /\ r <= (L + 1) * memory[1].k
     /\ memory[1].x[r] # 0
     /\ memory[1].t[r] = L \div increment(cfg)}

BufferRows ==
  IF memory = <<>> THEN 0 ELSE Len(memory[1].x)

AfterSecondUpdate == (pc = "boundary" /\ task = 1) \/ pc = "done"

IsDecayed(r, n) ==
  r[1] * cfg.rt[2] * Pow(10, n) = cfg.rt[1] * Pow(9, n) * r[2]

C10_BufferCallsComplete ==
  schema = SchemaOfSource
  => /\ err \notin {"TypeError: __init__() missing argument",
                    "TypeError: update_memory() missing argument",
                    "ValueError: too many values to unpack"}
     /\ (pc = "train" /\ task = 0)
        => memory = <<MemoryDataset(Zeros(cfg.memory_size),
                                    Zeros(cfg.memory_size),
                                    Zeros(cfg.memory_size),
                                    Zeros(cfg.memory_size),
                                    cfg.memory_size \div increment(cfg))>>

(***************************************************************************)
(* Properties of a restart (specification SpecResume).                     *)
(***************************************************************************)
\* the resumed run has loaded the buffer and begins task resume_task
ResumedAtTaskStart ==
  resume.resume /\ task = resume.resume_task /\ pc = "train"

SameRate(a, b) == a[1] * b[2] = b[1] * a[2]

C13_SnapshotAndBufferKept ==
  ResumedAtTaskStart
  => /\ prev_n_class = uninterrupted[1].prev_n_class
     /\ memory = uninterrupted[1].memory

\* what it does not: the model has one increment too many, rt is config.rt
C13_ModelGrownTwice ==
  ResumedAtTaskStart
  => /\ n_class = uninterrupted[1].n_class + increment(cfg)
     /\ rt = cfg.rt

(***************************************************************************)
(* Properties of the optimizer's rate (specification SpecLr).              *)
(***************************************************************************)
\* the rate lr multiplied n times by 0.1
Scaled(lr, n) == <<lr[1], lr[2] + n>>

\* C11: with the scheduler flag set, a step taken after e completed epochs of
\* a task uses the rate lr * 0.1^floor(e / (epoch/10)), and at the start of
\* every task the optimizer's rate is lr again.
C11_StepSchedule ==
  /\ (lr_used # <<>> /\ cfg.scheduler)
     => lr_used[1].lr = Scaled(cfg.lr, (10 * lr_used[1].epoch) \div cfg.epoch)
  /\ (pc = "epochs" /\ epoch = 0) => optimizer[1].lr = cfg.lr

\* what the runs do: every step of every epoch uses the rate lr
C11_RateNeverChanges ==
  lr_used # <<>> => lr_used[1].lr = cfg.lr

(***************************************************************************)
(* Properties of the gradient estimate (specification SpecGrad).           *)
(***************************************************************************)
\* the estimate of tensor t is the mean of the gradients of the N batches
IsMean(t, N) == t.avg # <<>> /\ t.avg[1] * N = Sum(t.gs) * t.avg[2]

\* C12: for every N >= 1, after the estimation loop prev_avg_K_grad and
\* prev_avg_bias_grad are the arithmetic means (g_1 + ... + g_N) / N of the
\* gradients of the N batches' own losses.
C12_EstimateIsMean ==
  (pc = "estimated" /\ est.N >= 1)
  => /\ Len(est.K.gs) = est.N
     /\ IsMean(est.K, est.N)
     /\ IsMean(est.bias, est.N)

\* with one batch the estimate is that batch's gradient
C12_OneBatch ==
  (pc = "estimated" /\ est.N = 1)
  => IsMean(est.K, 1) /\ IsMean(est.bias, 1)

(***************************************************************************)
(* Properties of the loader and the label shift (specification SpecData).  *)
(***************************************************************************)
LoaderMade == loader # <<>> /\ loader[1].ok

\* C14: for every name the loader accepts, in any letter case, and every
\* split, the Trainer's increment is the increment of the loader's scenario,
\* and the shifted label of every sample of a task lies in [0, increment).
C14_IncrementAgreement ==
  LoaderMade
  => /\ trainer_increment(cfg) = loader[1].increment
     /\ sample # <<>>
        => /\ 0 <= sample[1].shifted
           /\ sample[1].shifted < trainer_increment(cfg)

\* for the names in lower case the two increments agree
C14_LowerCaseAgreement ==
  (LoaderMade /\ lower(cfg.dataset) = cfg.dataset)
  => /\ trainer_increment(cfg) = loader[1].increment
     /\ sample # <<>>
        => /\ 0 <= sample[1].shifted
           /\ sample[1].shifted < trainer_increment(cfg)

====
